---- MODULE Spec2Model ----
(***************************************************************************)
(* Blogicum (blog/views.py): the visibility filter, the single-post gate,  *)
(* the ownership guard and the request handlers of every route, as a state *)
(* machine over the data store (posts, comments, usernames, the clock).    *)
(* One action is one request handled from dispatch to response.            *)
(***************************************************************************)
EXTENDS Integers, Sequences, FiniteSets, TLC

VARIABLES posts, comments, nextPostId, nextCommentId, username, now, resp

vars == <<posts, comments, nextPostId, nextCommentId, username, now, resp>>

(* ------------------------------ bounds -------------------------------- *)
\* Posts ever created (primary keys 1..MaxPosts; keys are never reused).
MaxPosts == 2
\* Comments ever created.
MaxComments == 1
\* The clock runs over 0..MaxTime; publication dates are drawn from it.
MaxTime == 1
\* Page numbers a list request may ask for.
MaxPage == 1
\* Usernames no user holds yet.
SpareNames == 0

(* ------------------------- program constants -------------------------- *)
\* PostListView.paginate_by
paginate_by == 10

(* ----------------------------- the data ------------------------------- *)
SpareNameList == <<"carol", "dave", "erin">>
Users == {"A", "B"}
Anonymous == "anon"
NoUser == "none"
Viewers == Users \cup {Anonymous}
\* The usernames there are: those of the two users and SpareNames free ones.
\* The profile form refuses a username another user holds.
Names == {"alice", "bob"} \cup {SpareNameList[i] : i \in 1..SpareNames}
\* Usernames a profile URL may carry.
UrlNames == Names \cup {"nobody"}
Categories == {"news", "hidden"}
Slugs == Categories \cup {"missing"}
Texts == {"v1", "v2"}
Times == 0..MaxTime
PostIds == 1..MaxPosts
CommentIds == 1..MaxComments

\* Category.is_published: "news" is a published category, "hidden" is not.
category_is_published(c) == c = "news"

\* The fields of a Post the views read or write.
PostRecords == [author : Users, is_published : BOOLEAN, pub_date : Times,
                category : Categories]

\* The fields of a Comment the views read or write.
CommentRecords == [author : Users, post : PostIds, text : Texts]

\* request.user.is_authenticated
is_authenticated(user) == user \in Users

Min(a, b) == IF a <= b THEN a ELSE b

Range(s) == {s[i] : i \in DOMAIN s}

(* ------------------------- queryset helpers --------------------------- *)
\* get_published_posts(queryset): current_time is read once, as t.
get_published_posts(queryset, t) ==
    {p \in queryset : /\ posts[p].is_published
                      /\ posts[p].pub_date <= t
                      /\ category_is_published(posts[p].category)}

\* get_visible_posts with | binding tighter than &: (author | published) & ...
get_visible_posts_or_first(queryset, user, t) ==
    IF user # NoUser /\ is_authenticated(user)
    THEN {p \in queryset : /\ posts[p].author = user \/ posts[p].is_published
                           /\ posts[p].pub_date <= t
                           /\ category_is_published(posts[p].category)}
    ELSE get_published_posts(queryset, t)

\* get_visible_posts(queryset, user): Q(author) | Q & Q & Q.
get_visible_posts(queryset, user, t) ==
    IF user # NoUser /\ is_authenticated(user)
    THEN {p \in queryset : \/ posts[p].author = user
                           \/ /\ posts[p].is_published
                              /\ posts[p].pub_date <= t
                              /\ category_is_published(posts[p].category)}
    ELSE get_published_posts(queryset, t)

\* PostListView.get_queryset, before order_by.
PostListView_get_queryset(user, t) ==
    get_visible_posts(DOMAIN posts, user, t)

\* HomePageView.get_queryset: the clock is read a second time, as t2.
HomePageView_get_queryset(user, t1, t2) ==
    {p \in PostListView_get_queryset(user, t1) :
        /\ posts[p].pub_date <= t2
        /\ posts[p].is_published
        /\ category_is_published(posts[p].category)}

\* CategoryView.get_queryset.
CategoryView_get_queryset(user, slug, t1, t2) ==
    {p \in PostListView_get_queryset(user, t1) :
        /\ posts[p].pub_date <= t2
        /\ posts[p].is_published
        /\ posts[p].category = slug}

\* ProfileView.get_queryset built on Post.objects instead of super().get_queryset.
ProfileView_get_queryset_unfiltered(user, name, t) ==
    {p \in DOMAIN posts : username[posts[p].author] = name}

\* ProfileView.get_queryset.
ProfileView_get_queryset(user, name, t) ==
    {p \in PostListView_get_queryset(user, t) :
        username[posts[p].author] = name}

\* order_by("-pub_date"): every order the database may return, the order
\* of posts with equal pub_date being unspecified.
order_by_pub_date_desc(queryset) ==
    {s \in [1..Cardinality(queryset) -> queryset] :
        /\ \A i, j \in DOMAIN s : i # j => s[i] # s[j]
        /\ \A i, j \in DOMAIN s : i < j => posts[s[i]].pub_date >= posts[s[j]].pub_date}

\* Paginator.num_pages: an empty first page is allowed.
num_pages(n) == IF n = 0 THEN 1 ELSE (n + paginate_by - 1) \div paginate_by

\* Paginator.page(number).object_list
page_of(s, number) ==
    SubSeq(s, (number - 1) * paginate_by + 1, Min(number * paginate_by, Len(s)))

(* ------------------------------ guards -------------------------------- *)
\* PostDetailView.dispatch without the author clause.
PostDetailView_allowed_published_only(post, user) == post.is_published

\* PostDetailView.dispatch: not (not post.is_published and author != user)
PostDetailView_allowed(post, user) ==
    ~(~post.is_published /\ post.author # user)

\* The ownership guard reduced to "is logged in".
is_owner_any_user(instance, user) == user \in Users

\* instance.author != request.user, negated: the ownership guard.
is_owner(instance, user) == instance.author = user

(* ----------------------------- responses ------------------------------ *)
\* What a handled request leaves behind: the request (route, viewer, arg,
\* page for a list route), the outcome (status, to), the queryset a list
\* view built (qs) and the posts the rendered page shows (items).
Response(route, viewer, arg, status, to, items, qs) ==
    [route |-> route, viewer |-> viewer, arg |-> arg, page |-> 0,
     status |-> status, to |-> to, items |-> items, qs |-> qs]

\* raise Http404 / get_object_or_404
NotFound(route, viewer, arg, qs) ==
    Response(route, viewer, arg, "not_found", <<>>, <<>>, qs)

\* redirect(...) / success_url / login_url
Redirect(route, viewer, arg, to) ==
    Response(route, viewer, arg, "redirect", to, <<>>, {})

\* render_to_response
Render(route, viewer, arg, items, qs) ==
    Response(route, viewer, arg, "render", <<>>, items, qs)

Init ==
    /\ posts = <<>>
    /\ comments = <<>>
    /\ nextPostId = 1
    /\ nextCommentId = 1
    /\ username = [u \in Users |-> IF u = "A" THEN "alice" ELSE "bob"]
    /\ now = 0
    /\ resp = Response("none", Anonymous, 0, "render", <<>>, <<>>, {})

\* The clock advances between requests.
Tick ==
    /\ now < MaxTime
    /\ now' = now + 1
    /\ UNCHANGED <<posts, comments, nextPostId, nextCommentId, username, resp>>

\* MultipleObjectMixin.paginate_queryset and the rendering of a list page:
\* an invalid page number is Http404.
ListResponse(route, viewer, arg, qs, found, number) ==
    \E s \in order_by_pub_date_desc(qs) :
        resp' = [(IF number <= num_pages(Len(s)) /\ found
                  THEN Render(route, viewer, arg, page_of(s, number), qs)
                  ELSE NotFound(route, viewer, arg, qs)) EXCEPT !.page = number]

\* GET / : HomePageView
HomePage(viewer, number) ==
    \E t2 \in now..Min(now + 1, MaxTime) :
        /\ now' = t2
        /\ ListResponse("home", viewer, 0,
                        HomePageView_get_queryset(viewer, now, t2), TRUE, number)
        /\ UNCHANGED <<posts, comments, nextPostId, nextCommentId, username>>

\* CategoryView.get_context_data without is_published=True in the lookup.
CategoryView_get_context_data_any(slug) == slug \in Categories

\* CategoryView.get_context_data: get_object_or_404(Category, slug=...,
\* is_published=True) finds the category.
CategoryView_get_context_data(slug) ==
    slug \in Categories /\ category_is_published(slug)

\* ProfileView.get_context_data: get_object_or_404(User, username=...).
ProfileView_get_context_data(name) == \E u \in Users : username[u] = name

\* GET /category/<slug>/ : CategoryView. get_context_data looks the category
\* up after the queryset is built and paginated.
CategoryPage(viewer, slug, number) ==
    \E t2 \in now..Min(now + 1, MaxTime) :
        /\ now' = t2
        /\ ListResponse("category", viewer, slug,
                        CategoryView_get_queryset(viewer, slug, now, t2),
                        CategoryView_get_context_data(slug), number)
        /\ UNCHANGED <<posts, comments, nextPostId, nextCommentId, username>>

\* GET /profile/<username>/ : ProfileView.
ProfilePage(viewer, name, number) ==
    /\ ListResponse("profile", viewer, name,
                    ProfileView_get_queryset(viewer, name, now),
                    ProfileView_get_context_data(name), number)
    /\ UNCHANGED <<posts, comments, nextPostId, nextCommentId, username, now>>

\* GET /posts/<post_id>/ : PostDetailView.dispatch, then the detail page.
PostDetail(viewer, post_id) ==
    /\ resp' = IF post_id \notin DOMAIN posts
               THEN NotFound("post_detail", viewer, post_id, {})
               ELSE IF ~PostDetailView_allowed(posts[post_id], viewer)
               THEN NotFound("post_detail", viewer, post_id, {})
               ELSE Render("post_detail", viewer, post_id, <<post_id>>,
                           {c \in DOMAIN comments : comments[c].post = post_id})
    /\ UNCHANGED <<posts, comments, nextPostId, nextCommentId, username, now>>

\* ProfileUpdateView: LoginRequiredMixin, then the object is request.user.
\* A submitted form is saved when the form layer accepts it (the username
\* is unique among users); otherwise the form page is rendered.
ProfileUpdate(viewer, submit) ==
    /\ IF ~is_authenticated(viewer)
       THEN /\ resp' = Redirect("profile_update", viewer, 0, <<"login">>)
            /\ UNCHANGED username
       ELSE IF ~submit
       THEN /\ resp' = Render("profile_update", viewer, 0, <<>>, {})
            /\ UNCHANGED username
       ELSE \E name \in Names :
            IF \E u \in Users \ {viewer} : username[u] = name
            THEN /\ resp' = Render("profile_update", viewer, 0, <<>>, {})
                 /\ UNCHANGED username
            ELSE /\ username' = [username EXCEPT ![viewer] = name]
                 /\ resp' = Redirect("profile_update", viewer, 0,
                                     <<"profile", name>>)
    /\ UNCHANGED <<posts, comments, nextPostId, nextCommentId, now>>

\* PostCreateView.form_valid without the author assignment.
PostCreateView_form_valid_unstamped(form, user) == form

\* PostCreateView.form_valid: form.instance.author = self.request.user
PostCreateView_form_valid(form, user) == [form EXCEPT !.author = user]

\* PostCreateView: LoginRequiredMixin, then the form, then the save.
PostCreate(viewer, submit) ==
    /\ (is_authenticated(viewer) /\ submit) => nextPostId <= MaxPosts
    /\ IF ~is_authenticated(viewer)
       THEN /\ resp' = Redirect("post_create", viewer, 0, <<"login">>)
            /\ UNCHANGED <<posts, nextPostId>>
       ELSE IF ~submit
       THEN /\ resp' = Render("post_create", viewer, 0, <<>>, {})
            /\ UNCHANGED <<posts, nextPostId>>
       ELSE \E form \in PostRecords :
            /\ posts' = posts @@ (nextPostId :> PostCreateView_form_valid(form, viewer))
            /\ nextPostId' = nextPostId + 1
            /\ resp' = Redirect("post_create", viewer, 0,
                                <<"profile", username[viewer]>>)
    /\ UNCHANGED <<comments, nextCommentId, username, now>>

\* LoginRequiredMixin.dispatch and the dispatch overrides in front of it, as
\* the views order them: "not_found", "fallback", "login" or "proceed".
\* PostUpdateView.dispatch, PostDeleteView.dispatch and
\* CommentChangeView.dispatch resolve the object and apply the ownership
\* guard before super().dispatch, which is where LoginRequiredMixin runs.
change_dispatch(table, pk, viewer) ==
    IF pk \notin DOMAIN table THEN "not_found"
    ELSE IF ~is_owner(table[pk], viewer) THEN "fallback"
    ELSE IF ~is_authenticated(viewer) THEN "login"
    ELSE "proceed"

PostUpdateView_dispatch(viewer, post_id) == change_dispatch(posts, post_id, viewer)

PostDeleteView_dispatch(viewer, post_id) == change_dispatch(posts, post_id, viewer)

CommentChangeView_dispatch(viewer, comment_id) ==
    change_dispatch(comments, comment_id, viewer)

\* The response of an update or delete route that did not save or delete:
\* 404, the fallback redirect, the login redirect or the form page.
Refused(d, route, viewer, arg, fallback) ==
    IF d = "not_found" THEN NotFound(route, viewer, arg, {})
    ELSE IF d = "fallback" THEN Redirect(route, viewer, arg, fallback)
    ELSE IF d = "login" THEN Redirect(route, viewer, arg, <<"login">>)
    ELSE Render(route, viewer, arg, <<>>, {})

\* PostUpdateView: UpdateView.form_valid saves the form's fields as they were
\* submitted; form_valid stamps nothing, so whatever PostForm lets through
\* is stored.
PostUpdate(viewer, post_id, submit) ==
    /\ IF PostUpdateView_dispatch(viewer, post_id) = "proceed" /\ submit
       THEN \E form \in PostRecords :
            /\ posts' = [posts EXCEPT ![post_id] = form]
            /\ resp' = Redirect("post_update", viewer, post_id,
                                <<"post_detail", post_id>>)
       ELSE /\ resp' = Refused(PostUpdateView_dispatch(viewer, post_id), "post_update",
                               viewer, post_id, <<"post_detail", post_id>>)
            /\ UNCHANGED posts
    /\ UNCHANGED <<comments, nextPostId, nextCommentId, username, now>>

\* Deleting a post deletes its comments (the foreign key of Comment.post).
cascade(post_id) ==
    [c \in {d \in DOMAIN comments : comments[d].post # post_id} |-> comments[c]]

\* PostDeleteView.
PostDelete(viewer, post_id, submit) ==
    /\ IF PostDeleteView_dispatch(viewer, post_id) = "proceed" /\ submit
       THEN /\ posts' = [p \in DOMAIN posts \ {post_id} |-> posts[p]]
            /\ comments' = cascade(post_id)
            /\ resp' = Redirect("post_delete", viewer, post_id, <<"index">>)
       ELSE /\ resp' = Refused(PostDeleteView_dispatch(viewer, post_id), "post_delete",
                               viewer, post_id, <<"index">>)
            /\ UNCHANGED <<posts, comments>>
    /\ UNCHANGED <<nextPostId, nextCommentId, username, now>>

\* CommentCreateView.dispatch: the post is resolved, then LoginRequiredMixin.
CommentCreateView_dispatch(viewer, post_id) ==
    IF post_id \notin DOMAIN posts THEN "not_found"
    ELSE IF ~is_authenticated(viewer) THEN "login"
    ELSE "proceed"

\* CommentCreateView.form_valid: author and post are stamped on the instance.
CommentCreateView_form_valid(form, user, post_id) ==
    [form EXCEPT !.author = user, !.post = post_id]

\* CommentCreateView.
CommentCreate(viewer, post_id, submit) ==
    /\ (CommentCreateView_dispatch(viewer, post_id) = "proceed" /\ submit)
           => nextCommentId <= MaxComments
    /\ IF CommentCreateView_dispatch(viewer, post_id) = "proceed" /\ submit
       THEN \E form \in CommentRecords :
            /\ comments' = comments @@
                (nextCommentId :> CommentCreateView_form_valid(form, viewer, post_id))
            /\ nextCommentId' = nextCommentId + 1
            /\ resp' = Redirect("comment_create", viewer, post_id,
                                <<"post_detail", post_id>>)
       ELSE /\ resp' = Refused(CommentCreateView_dispatch(viewer, post_id),
                               "comment_create", viewer, post_id, <<>>)
            /\ UNCHANGED <<comments, nextCommentId>>
    /\ UNCHANGED <<posts, nextPostId, username, now>>

\* The parent post's detail page, where comment routes redirect.
CommentFallback(comment_id) ==
    IF comment_id \in DOMAIN comments
    THEN <<"post_detail", comments[comment_id].post>> ELSE <<>>

\* CommentUpdateView.
CommentUpdate(viewer, comment_id, submit) ==
    /\ IF CommentChangeView_dispatch(viewer, comment_id) = "proceed" /\ submit
       THEN \E text \in Texts :
            /\ comments' = [comments EXCEPT ![comment_id].text = text]
            /\ resp' = Redirect("comment_update", viewer, comment_id,
                                CommentFallback(comment_id))
       ELSE /\ resp' = Refused(CommentChangeView_dispatch(viewer, comment_id),
                               "comment_update", viewer, comment_id,
                               CommentFallback(comment_id))
            /\ UNCHANGED comments
    /\ UNCHANGED <<posts, nextPostId, nextCommentId, username, now>>

\* CommentDeleteView.
CommentDelete(viewer, comment_id, submit) ==
    /\ IF CommentChangeView_dispatch(viewer, comment_id) = "proceed" /\ submit
       THEN /\ comments' = [c \in DOMAIN comments \ {comment_id} |-> comments[c]]
            /\ resp' = Redirect("comment_delete", viewer, comment_id,
                                CommentFallback(comment_id))
       ELSE /\ resp' = Refused(CommentChangeView_dispatch(viewer, comment_id),
                               "comment_delete", viewer, comment_id,
                               CommentFallback(comment_id))
            /\ UNCHANGED comments
    /\ UNCHANGED <<posts, nextPostId, nextCommentId, username, now>>

\* The read routes, and the clock.
NextRead ==
    \/ Tick
    \/ \E v \in Viewers, n \in 1..MaxPage : HomePage(v, n)
    \/ \E v \in Viewers, s \in Slugs, n \in 1..MaxPage : CategoryPage(v, s, n)
    \/ \E v \in Viewers, u \in UrlNames, n \in 1..MaxPage : ProfilePage(v, u, n)
    \/ \E v \in Viewers, p \in PostIds : PostDetail(v, p)

\* The routes that write posts.
NextPosts ==
    \/ \E v \in Viewers, b \in BOOLEAN : PostCreate(v, b)
    \/ \E v \in Viewers, p \in PostIds, b \in BOOLEAN : PostUpdate(v, p, b)
    \/ \E v \in Viewers, p \in PostIds, b \in BOOLEAN : PostDelete(v, p, b)

\* The routes that write accounts and comments.
NextAccounts ==
    \/ \E v \in Viewers, b \in BOOLEAN : ProfileUpdate(v, b)
    \/ \E v \in Viewers, p \in PostIds, b \in BOOLEAN : CommentCreate(v, p, b)
    \/ \E v \in Viewers, c \in CommentIds, b \in BOOLEAN : CommentUpdate(v, c, b)
    \/ \E v \in Viewers, c \in CommentIds, b \in BOOLEAN : CommentDelete(v, c, b)

Next == NextRead \/ NextPosts \/ NextAccounts

\* Every route.
Spec == Init /\ [][Next]_vars

\* The read routes over every table of posts the post routes can build. No
\* read route reads a comment's fields or writes anything but the response.
SpecRead == Init /\ [][NextRead \/ NextPosts]_vars

\* The routes that write. None of them reads the clock.
SpecWrite == Init /\ [][NextPosts \/ NextAccounts]_vars

(* ------------- get_visible_posts as a function of its inputs ----------- *)
\* Any table of posts, any clock reading, nothing asked yet.
InitVisible ==
    /\ posts \in UNION {[D -> PostRecords] : D \in SUBSET PostIds}
    /\ comments = <<>>
    /\ nextPostId = MaxPosts + 1
    /\ nextCommentId = 1
    /\ username = [u \in Users |-> IF u = "A" THEN "alice" ELSE "bob"]
    /\ now \in Times
    /\ resp = Response("none", Anonymous, 0, "render", <<>>, <<>>, {})

\* get_visible_posts(queryset, user) on a candidate queryset; user may be
\* None, the parameter's default.
GetVisiblePosts(queryset, user) ==
    /\ resp' = Response("get_visible_posts", user, queryset, "queryset", <<>>, <<>>,
                        get_visible_posts(queryset, user, now))
    /\ UNCHANGED <<posts, comments, nextPostId, nextCommentId, username, now>>

NextVisible ==
    \E q \in SUBSET DOMAIN posts, u \in Viewers \cup {NoUser} : GetVisiblePosts(q, u)

SpecVisible == InitVisible /\ [][NextVisible]_vars

(* ------------------------------ claims --------------------------------- *)
\* is_published AND pub_date <= t AND category.is_published, written out.
PublicAt(p, t) ==
    /\ posts[p].is_published
    /\ posts[p].pub_date <= t
    /\ posts[p].category = "news"

ListRoutes == {"home", "category", "profile"}
PostChangeRoutes == {"post_update", "post_delete"}
CommentChangeRoutes == {"comment_update", "comment_delete"}
MutationRoutes == {"post_create", "post_update", "post_delete", "comment_create",
                   "comment_update", "comment_delete", "profile_update"}

\* C1: get_visible_posts returns, of the candidate queryset, exactly the
\* posts that are published, not future-dated and in a published category,
\* plus, for an authenticated viewer, that viewer's own posts; nothing else
\* is returned and nothing qualifying is dropped.
C1_VisibleExact ==
    resp.route = "get_visible_posts" =>
        \A p \in DOMAIN posts :
            p \in resp.qs <=>
                /\ p \in resp.arg
                /\ \/ PublicAt(p, now)
                   \/ resp.viewer \in Users /\ posts[p].author = resp.viewer

\* C1 witness: an authenticated viewer's own unpublished post is returned
\* while another candidate is filtered out.
C1_Witness ==
    /\ resp.route = "get_visible_posts"
    /\ resp.viewer \in Users
    /\ \E p \in resp.qs : posts[p].author = resp.viewer /\ ~PublicAt(p, now)
    /\ \E q \in resp.arg : q \notin resp.qs

\* C4: the detail route renders an existing post iff it is published or the
\* viewer is its author; every other detail request, a missing post
\* included, ends in not-found.
C4_DetailGate ==
    resp.route = "post_detail" =>
        IF /\ resp.arg \in DOMAIN posts
           /\ (posts[resp.arg].is_published \/ posts[resp.arg].author = resp.viewer)
        THEN resp.status = "render" /\ resp.items = <<resp.arg>>
        ELSE resp.status = "not_found"

\* C4 witness: an authenticated non-author asked for an existing unpublished
\* post and got not-found.
C4_Witness ==
    /\ resp.route = "post_detail"
    /\ resp.arg \in DOMAIN posts
    /\ resp.viewer \in Users
    /\ ~posts[resp.arg].is_published
    /\ posts[resp.arg].author # resp.viewer
    /\ resp.status = "not_found"

\* The request handled last was a change route's, by an authenticated viewer
\* who is not the author of the post or comment it names.
NonAuthorPostRequest ==
    /\ resp'.route \in PostChangeRoutes
    /\ resp'.viewer \in Users
    /\ resp'.arg \in DOMAIN posts
    /\ posts[resp'.arg].author # resp'.viewer

NonAuthorCommentRequest ==
    /\ resp'.route \in CommentChangeRoutes
    /\ resp'.viewer \in Users
    /\ resp'.arg \in DOMAIN comments
    /\ comments[resp'.arg].author # resp'.viewer

\* The ownership guard, as one step: a non-author's update or delete request
\* changes nothing in the store and ends in the fallback redirect.
GuardStep ==
    /\ NonAuthorPostRequest =>
          /\ UNCHANGED <<posts, comments, username>>
          /\ resp'.status = "redirect"
          /\ resp'.to = IF resp'.route = "post_update"
                        THEN <<"post_detail", resp'.arg>> ELSE <<"index">>
    /\ NonAuthorCommentRequest =>
          /\ UNCHANGED <<posts, comments, username>>
          /\ resp'.status = "redirect"
          /\ resp'.to = <<"post_detail", comments[resp'.arg].post>>

\* A post edited or deleted in this step was edited or deleted by its author.
PostChangedByAuthor ==
    \A p \in DOMAIN posts :
        (p \notin DOMAIN posts' \/ posts'[p] # posts[p]) =>
            resp'.viewer = posts[p].author

\* A comment edited in this step was edited by its author.
CommentEditedByAuthor ==
    \A c \in DOMAIN comments :
        (c \in DOMAIN comments' /\ comments'[c] # comments[c]) =>
            resp'.viewer = comments[c].author

\* C2 as stated: the ownership guard deflects every authenticated non-author
\* without mutation, and consequently every edit or deletion of a post or
\* comment was issued by that resource's author.
C2_AsStated ==
    [][/\ GuardStep
       /\ PostChangedByAuthor
       /\ CommentEditedByAuthor
       /\ \A c \in DOMAIN comments :
             c \notin DOMAIN comments' => resp'.viewer = comments[c].author]_vars

\* C2 amended: the ownership guard deflects every authenticated non-author
\* without mutation; every post edit or deletion and every comment edit was
\* issued by the resource's author, and a comment is deleted either by its
\* author or with its parent post, by the post's author.
C2_OwnershipGuard ==
    [][/\ GuardStep
       /\ PostChangedByAuthor
       /\ CommentEditedByAuthor
       /\ \A c \in DOMAIN comments :
             c \notin DOMAIN comments' =>
                \/ resp'.route = "comment_delete" /\ resp'.viewer = comments[c].author
                \/ /\ resp'.route = "post_delete"
                   /\ resp'.arg = comments[c].post
                   /\ resp'.viewer = posts[comments[c].post].author]_vars

\* C2 witness: an authenticated non-author asked to delete a comment, was
\* sent to the parent post's detail page, and the comment is still there.
C2_Witness ==
    /\ resp.route = "comment_delete"
    /\ resp.viewer \in Users
    /\ resp.arg \in DOMAIN comments
    /\ comments[resp.arg].author # resp.viewer
    /\ resp.status = "redirect"
    /\ resp.to = <<"post_detail", comments[resp.arg].post>>

\* C3: every unauthenticated request to a mutation route ends in the
\* redirect to login, whether or not its target exists and whoever owns it.
C3_LoginFirst ==
    (resp.route \in MutationRoutes /\ resp.viewer = Anonymous) =>
        resp.status = "redirect" /\ resp.to = <<"login">>

\* C5: on every read route a post is shown to a viewer who is not its author
\* only when it is published, not future-dated and in a published category;
\* and its author is always shown it on the profile listing and the detail
\* route.
C5_PublicOnly ==
    /\ (resp.route \in ListRoutes \cup {"post_detail"} /\ resp.status = "render") =>
          \A p \in Range(resp.items) :
              posts[p].author # resp.viewer => PublicAt(p, now)
    /\ \A p \in DOMAIN posts :
          /\ (/\ resp.route = "profile"
              /\ resp.viewer = posts[p].author
              /\ resp.arg = username[posts[p].author]
              /\ resp.page = 1
              /\ Cardinality(resp.qs) <= paginate_by) => p \in Range(resp.items)
          /\ (/\ resp.route = "post_detail"
              /\ resp.viewer = posts[p].author
              /\ resp.arg = p) => resp.status = "render"

\* C6 as stated: neither the home queryset, nor the category queryset, nor a
\* rendered home or category page holds a post of an unpublished category.
C6_AsStated ==
    resp.route \in {"home", "category"} =>
        \A p \in resp.qs \cup Range(resp.items) : posts[p].category = "news"

\* C6 amended: the home queryset and every rendered home or category page
\* hold no post of an unpublished category; the category queryset holds one
\* only for that post's own author, and that request ends in not-found.
C6_NoUnpublishedCategory ==
    /\ resp.route = "home" => \A p \in resp.qs : posts[p].category = "news"
    /\ resp.route \in {"home", "category"} =>
          \A p \in Range(resp.items) : posts[p].category = "news"
    /\ resp.route = "category" =>
          \A p \in resp.qs :
              posts[p].category # "news" =>
                  resp.status = "not_found" /\ posts[p].author = resp.viewer

\* C6 witness: the author of a published post in an unpublished category asked
\* for that category's listing: the queryset held the post, the answer was
\* not-found.
C6_Witness ==
    /\ resp.route = "category"
    /\ resp.arg = "hidden"
    /\ \E p \in resp.qs : posts[p].author = resp.viewer /\ posts[p].category = "hidden"
    /\ resp.status = "not_found"

\* C7: an unpublished post is on its author's own profile listing and opens
\* for its author on the detail route; for every other viewer, anonymous or
\* authenticated, it is on no listing and its detail route is not-found.
C7_DraftsPrivate ==
    \A p \in DOMAIN posts :
        ~posts[p].is_published =>
            /\ (/\ resp.route = "profile"
                /\ resp.viewer = posts[p].author
                /\ resp.arg = username[posts[p].author]) =>
                    /\ p \in resp.qs
                    /\ (resp.page = 1 /\ Cardinality(resp.qs) <= paginate_by) =>
                           resp.status = "render" /\ p \in Range(resp.items)
            /\ (resp.route = "post_detail" /\ resp.arg = p) =>
                  resp.status = IF resp.viewer = posts[p].author
                                THEN "render" ELSE "not_found"
            /\ (resp.route \in ListRoutes /\ resp.viewer # posts[p].author) =>
                  p \notin resp.qs /\ p \notin Range(resp.items)

\* C7 witness: an authenticated viewer was rendered the profile listing of
\* the author of an unpublished, future-dated post, without that post.
C7_Witness ==
    /\ resp.route = "profile"
    /\ resp.viewer \in Users
    /\ resp.status = "render"
    /\ \E p \in DOMAIN posts :
          /\ ~posts[p].is_published
          /\ posts[p].pub_date > now
          /\ posts[p].author # resp.viewer
          /\ resp.arg = username[posts[p].author]
          /\ p \notin Range(resp.items)

\* C8: a rendered list page is ordered by pub_date descending, posts of equal
\* pub_date in identity order, so that the store determines the order.
C8_DeterministicOrder ==
    (resp.route \in ListRoutes /\ resp.status = "render") =>
        \A i, j \in DOMAIN resp.items :
            i < j =>
                \/ posts[resp.items[i]].pub_date > posts[resp.items[j]].pub_date
                \/ /\ posts[resp.items[i]].pub_date = posts[resp.items[j]].pub_date
                   /\ resp.items[i] < resp.items[j]

\* C9: a post saved by the create route has the requesting viewer as author
\* and the viewer is sent to their own profile; a comment saved by the
\* comment-create route has the requesting viewer as author and the post of
\* the URL as post, and the viewer is sent to that post's detail page; a
\* comment-create request naming no existing post saves nothing and ends in
\* not-found.
C9_CreationStamping ==
    [][/\ \A p \in DOMAIN posts' \ DOMAIN posts :
             /\ resp'.route = "post_create"
             /\ resp'.viewer \in Users
             /\ posts'[p].author = resp'.viewer
             /\ resp'.status = "redirect"
             /\ resp'.to = <<"profile", username[resp'.viewer]>>
       /\ \A c \in DOMAIN comments' \ DOMAIN comments :
             /\ resp'.route = "comment_create"
             /\ resp'.viewer \in Users
             /\ comments'[c].author = resp'.viewer
             /\ resp'.arg \in DOMAIN posts
             /\ comments'[c].post = resp'.arg
             /\ resp'.status = "redirect"
             /\ resp'.to = <<"post_detail", resp'.arg>>
       /\ (resp'.route = "comment_create" /\ resp'.arg \notin DOMAIN posts) =>
             /\ UNCHANGED <<posts, comments>>
             /\ resp'.status = "not_found"]_vars

\* C9 witness: a comment was saved on a post another user wrote, and the
\* viewer was sent to that post's detail page.
C9_Witness ==
    /\ resp.route = "comment_create"
    /\ resp.status = "redirect"
    /\ resp.to = <<"post_detail", resp.arg>>
    /\ resp.arg \in DOMAIN posts
    /\ posts[resp.arg].author # resp.viewer
    /\ \E c \in DOMAIN comments :
          comments[c].author = resp.viewer /\ comments[c].post = resp.arg

\* C10: a comment is saved on a post only for a viewer the detail route would
\* render that post for: the post is published or the viewer is its author.
C10_CommentRespectsGate ==
    (/\ resp.route = "comment_create"
     /\ resp.status = "redirect"
     /\ resp.to = <<"post_detail", resp.arg>>) =>
        \/ posts[resp.arg].is_published
        \/ posts[resp.arg].author = resp.viewer
====
